---- MODULE Spec2Model ----
(***************************************************************************)
(* coverage_comment/github.py: the comment upsert (post_comment), the PR   *)
(* resolver (get_pr_number_from_workflow_run) and the identity resolver    *)
(* (get_my_login), run against a GitHub API whose answers are not under    *)
(* the program's control.                                                  *)
(*                                                                         *)
(* Strings whose contents matter (comment bodies, markers, branch names)   *)
(* are sequences of characters, so that `marker in body` and the f-string  *)
(* of the head filter are computed, not assumed.                           *)
(***************************************************************************)
EXTENDS Integers, Sequences, FiniteSets, TLC

VARIABLES
    thread,     \* remote: the PR's issue comments, in API-returned order
    nextId,     \* remote: the id the API gives to the next created comment
    actor,      \* remote: the login the API records on comments the token creates
    pc,         \* pc[p]: where invocation p of post_comment stands
    me,         \* me[p], contents[p], marker[p]: the arguments of invocation p
    contents,
    marker,
    listed,     \* listed[p]: the comment list invocation p iterates over
    target,     \* target[p]: comment.id of the comment the loop stopped at (0: none)
    trace,      \* trace[p]: the remote calls and log lines of invocation p, in order
    outcome,    \* outcome[p]: how invocation p ended
    cause,      \* cause[p]: __cause__ of the raised exception
    hist,       \* history of the sequential invocations with unchanged (me, marker)
    rop,        \* resolver: which function is running
    rpc,        \* resolver: where it stands
    run,        \* resolver: the workflow run descriptor fetched
    rtrace,     \* resolver: remote calls and log lines, in order
    routcome,   \* resolver: how the call ended
    rnumber,    \* resolver: PR number returned (0: none)
    rlogin,     \* resolver: login returned ("": none)
    apc,        \* download_artifact: where it stands
    aname,      \* download_artifact: the argument artifact_name
    afile,      \* download_artifact: str(filename)
    artifacts,  \* download_artifact: the artifacts of the run as listed
    atrace,     \* download_artifact: remote calls, in order
    aoutcome,   \* download_artifact: how the call ended
    acontent    \* download_artifact: the text returned (<<>>: none)

postVars == <<thread, nextId, actor, pc, me, contents, marker, listed, target,
              trace, outcome, cause, hist>>
resVars == <<rop, rpc, run, rtrace, routcome, rnumber, rlogin>>
artVars == <<apc, aname, afile, artifacts, atrace, aoutcome, acontent>>
vars == <<postVars, resVars, artVars>>

(***************************************************************************)
(* Bounds and input sets.                                                  *)
(***************************************************************************)
MaxComments == 2    \* comments on the thread before the first invocation
MaxRuns == 2        \* the invocation count of hist saturates here
MaxPRs == 2         \* results in one page of a pull-request query
MaxArtifacts == 3   \* artifacts in the listing of a run

Procs == {1, 2}
Main == 1

GITHUB_ACTIONS_LOGIN == "github-actions[bot]"

Logins == {"foo", "bar"}
Bodies == {<<"k">>, <<"k", "m">>, <<"k", "m", "k">>}
Markers == {<<"m">>, <<"m", "k">>}
Responses == {"ok", "forbidden", "error"}
MaxThread == MaxComments + 1   \* the thread grows by one comment at most
FirstId == 456

ApiLogins == {"foo", "bar", GITHUB_ACTIONS_LOGIN}
Repos == {<<"someone", "/", "repo-name">>, <<"foo", "/", "bar">>}
Branches == {<<"other">>, <<"main">>}
PRNumbers == {455, 456, 457}

(***************************************************************************)
(* marker in comment.body: Python's substring test on str.                 *)
(***************************************************************************)
IsSubstring(m, b) ==
    \E i \in 0..(Len(b) - Len(m)) : SubSeq(b, i + 1, i + Len(m)) = m

\* the condition of the loop body
MatchesAuthorOnly(comment, m, k) == comment.user.login = m
MatchesMarkerOnly(comment, m, k) == IsSubstring(k, comment.body)
MatchesWholeBody(comment, m, k) == comment.user.login = m /\ comment.body = k
Matches(comment, m, k) ==
    comment.user.login = m /\ IsSubstring(k, comment.body)

\* for comment in ...: if ...: ...; break -- the index the loop stops at, 0 when
\* it runs to its else clause
RECURSIVE ScanFrom(_, _, _, _)
ScanFrom(comments, i, m, k) ==
    IF i > Len(comments) THEN 0
    ELSE IF Matches(comments[i], m, k) THEN i
    ELSE ScanFrom(comments, i + 1, m, k)

RECURSIVE ScanBack(_, _, _, _)
ScanBack(comments, i, m, k) ==
    IF i < 1 THEN 0
    ELSE IF Matches(comments[i], m, k) THEN i
    ELSE ScanBack(comments, i - 1, m, k)

LastMatch(comments, m, k) == ScanBack(comments, Len(comments), m, k)
FirstMatch(comments, m, k) == ScanFrom(comments, 1, m, k)

(***************************************************************************)
(* The remote side of the two writes.                                      *)
(***************************************************************************)
\* PATCH /repos/{repository}/issues/comments/{id} with body=...
PatchAllBy(comments, id, body) ==
    [i \in 1..Len(comments) |->
        IF comments[i].user = (CHOOSE c \in {comments[j] : j \in 1..Len(comments)} :
                                   c.id = id).user
        THEN [comments[i] EXCEPT !.body = body] ELSE comments[i]]
Patched(comments, id, body) ==
    [i \in 1..Len(comments) |->
        IF comments[i].id = id THEN [comments[i] EXCEPT !.body = body]
        ELSE comments[i]]

\* POST /repos/{repository}/issues/{pr_number}/comments with body=...
Posted(comments, id, login, body) ==
    Append(comments, [id |-> id, user |-> [login |-> login], body |-> body])

\* try: ...patch(...) except github_client.Forbidden as exc: raise CannotPostComment from exc
PatchSwallow(st) == IF st = "error" THEN "ApiError" ELSE "returned"
PatchOutcome(st) ==
    IF st = "ok" THEN "returned"
    ELSE IF st = "forbidden" THEN "CannotPostComment"
    ELSE "ApiError"

\* try: ...post(...) except github_client.Forbidden as exc: raise CannotPostComment from exc
PostWrapsAll(st) == IF st = "ok" THEN "returned" ELSE "CannotPostComment"
PostOutcome(st) ==
    IF st = "ok" THEN "returned"
    ELSE IF st = "forbidden" THEN "CannotPostComment"
    ELSE "ApiError"

\* an exception that is not caught leaves the function as it is
Propagated(st) == IF st = "forbidden" THEN "Forbidden" ELSE "ApiError"

CallEvent(kind, id, body, st) ==
    [kind |-> kind, id |-> id, body |-> body, status |-> st, msg |-> ""]
\* log.info(...)
LogDebug(msg) ==
    [kind |-> "DEBUG", id |-> 0, body |-> <<>>, status |-> "", msg |-> msg]
LogEvent(msg) ==
    [kind |-> "LOG", id |-> 0, body |-> <<>>, status |-> "", msg |-> msg]

MatchCount(comments, m, k) ==
    Cardinality({i \in 1..Len(comments) : Matches(comments[i], m, k)})

(***************************************************************************)
(* Initial states.                                                         *)
(***************************************************************************)
CommentAt(i, login, body) ==
    [id |-> FirstId + i - 1, user |-> [login |-> login], body |-> body]

InitThreads ==
    UNION {
        {[i \in 1..n |-> CommentAt(i, a[i], b[i])] :
            a \in [1..n -> Logins], b \in [1..n -> Bodies]}
        : n \in 0..MaxComments}

NoHist ==
    [n |-> 0, pre |-> 0, marked |-> TRUE, unmarked |-> TRUE, posts |-> 0, made |-> 0]

PostInit ==
    /\ thread \in InitThreads
    /\ nextId = FirstId + Len(thread)
    /\ actor \in Logins
    /\ pc = [p \in Procs |-> "Idle"]
    /\ me = [p \in Procs |-> "foo"]
    /\ contents = [p \in Procs |-> <<"k">>]
    /\ marker = [p \in Procs |-> <<"m">>]
    /\ listed = [p \in Procs |-> <<>>]
    /\ target = [p \in Procs |-> 0]
    /\ trace = [p \in Procs |-> <<>>]
    /\ outcome = [p \in Procs |-> "none"]
    /\ cause = [p \in Procs |-> "none"]
    /\ hist = NoHist

ResInit ==
    /\ rop = "none"
    /\ rpc = "Idle"
    /\ run = <<>>
    /\ rtrace = <<>>
    /\ routcome = "none"
    /\ rnumber = 0
    /\ rlogin = ""

ArtInit ==
    /\ apc = "Idle"
    /\ aname = ""
    /\ afile = ""
    /\ artifacts = <<>>
    /\ atrace = <<>>
    /\ aoutcome = "none"
    /\ acontent = <<>>

Init == PostInit /\ ResInit /\ ArtInit

(***************************************************************************)
(* post_comment                                                            *)
(***************************************************************************)
Terminal == {"Updated", "Created", "Failed"}

\* the invocations so far that ran one after the other with the same (me, marker)
\* and returned: how many, how many comments matched before the first of them,
\* whether every contents held the marker, whether none did, how many of them
\* created a comment, and the id of the comment the first of them created
HistAtStart(p, m, c, k) ==
    IF hist.n > 0 /\ m = me[p] /\ k = marker[p]
    THEN [hist EXCEPT !.marked = hist.marked /\ IsSubstring(k, c),
                      !.unmarked = hist.unmarked /\ ~IsSubstring(k, c)]
    ELSE [n |-> 0, pre |-> MatchCount(thread, m, k), marked |-> IsSubstring(k, c),
          unmarked |-> ~IsSubstring(k, c), posts |-> 0, made |-> 0]

HistAtEnd(res, kind, id) ==
    IF res = "returned"
    THEN [hist EXCEPT
            !.n = IF hist.n < MaxRuns THEN hist.n + 1 ELSE MaxRuns,
            !.posts = IF kind = "POST" /\ hist.posts < MaxRuns
                      THEN hist.posts + 1 ELSE hist.posts,
            !.made = IF kind = "POST" /\ hist.n = 0 THEN id ELSE hist.made]
    ELSE [hist EXCEPT !.n = 0]

\* def post_comment(github, me, repository, pr_number, contents, marker)
Start(p) ==
    /\ pc[p] \in {"Idle"} \cup Terminal
    /\ \E m \in Logins, c \in Bodies, k \in Markers :
        /\ me' = [me EXCEPT ![p] = m]
        /\ contents' = [contents EXCEPT ![p] = c]
        /\ marker' = [marker EXCEPT ![p] = k]
        /\ hist' = HistAtStart(p, m, c, k)
    /\ pc' = [pc EXCEPT ![p] = "Scanning"]
    /\ listed' = [listed EXCEPT ![p] = <<>>]
    /\ target' = [target EXCEPT ![p] = 0]
    /\ trace' = [trace EXCEPT ![p] = <<>>]
    /\ outcome' = [outcome EXCEPT ![p] = "none"]
    /\ cause' = [cause EXCEPT ![p] = "none"]
    /\ UNCHANGED <<thread, nextId, actor, resVars, artVars>>

\* for comment in issue_comments_path.get(): if ... : log.info(...) / else: log.info(...)
ListComments(p) ==
    /\ pc[p] = "Scanning"
    /\ \E st \in Responses :
        LET got == CallEvent("GET", 0, <<>>, st)
            i == FirstMatch(thread, me[p], marker[p])
        IN  IF st = "ok"
            THEN /\ listed' = [listed EXCEPT ![p] = thread]
                 /\ IF i # 0
                    THEN /\ target' = [target EXCEPT ![p] = thread[i].id]
                         /\ trace' = [trace EXCEPT ![p] =
                                <<got, LogEvent("Update previous comment")>>]
                         /\ pc' = [pc EXCEPT ![p] = "Found"]
                    ELSE /\ target' = target
                         /\ trace' = [trace EXCEPT ![p] =
                                <<got, LogEvent("Adding new comment")>>]
                         /\ pc' = [pc EXCEPT ![p] = "NotFound"]
                 /\ UNCHANGED <<outcome, hist>>
            ELSE /\ trace' = [trace EXCEPT ![p] = <<got>>]
                 /\ pc' = [pc EXCEPT ![p] = "Failed"]
                 /\ outcome' = [outcome EXCEPT ![p] = Propagated(st)]
                 /\ hist' = HistAtEnd(Propagated(st), "GET", 0)
                 /\ UNCHANGED <<listed, target>>
    /\ UNCHANGED <<thread, nextId, actor, me, contents, marker, cause, resVars, artVars>>

\* break: the id of the comment the loop goes on with after the PATCH has
\* returned; 0 when the loop is left, -1 when it runs to its else clause
NoBreak(comments, id, m, k) ==
    LET at == CHOOSE i \in 1..Len(comments) : comments[i].id = id
        later == {j \in (at + 1)..Len(comments) : Matches(comments[j], m, k)}
    IN  IF later = {} THEN -1
        ELSE comments[CHOOSE j \in later : \A l \in later : j <= l].id
Break(comments, id, m, k) == 0

\* comments_path(comment.id).patch(body=contents), then break
UpdateComment(p) ==
    /\ pc[p] = "Found"
    /\ \E st \in Responses :
        LET patch == CallEvent("PATCH", target[p], contents[p], st)
            goes == IF PatchOutcome(st) = "returned"
                    THEN Break(listed[p], target[p], me[p], marker[p]) ELSE 0
        IN  /\ thread' = IF st = "ok" THEN Patched(thread, target[p], contents[p])
                         ELSE thread
            /\ IF goes = 0
               THEN /\ trace' = [trace EXCEPT ![p] = Append(@, patch)]
                    /\ outcome' = [outcome EXCEPT ![p] = PatchOutcome(st)]
                    /\ cause' = [cause EXCEPT ![p] =
                            IF PatchOutcome(st) = "CannotPostComment"
                            THEN "Forbidden" ELSE "none"]
                    /\ pc' = [pc EXCEPT ![p] =
                            IF PatchOutcome(st) = "returned" THEN "Updated"
                            ELSE "Failed"]
                    /\ hist' = HistAtEnd(PatchOutcome(st), "PATCH", target[p])
                    /\ UNCHANGED target
               ELSE IF goes > 0
               THEN /\ trace' = [trace EXCEPT ![p] =
                            @ \o <<patch, LogEvent("Update previous comment")>>]
                    /\ target' = [target EXCEPT ![p] = goes]
                    /\ UNCHANGED <<pc, outcome, cause, hist>>
               ELSE /\ trace' = [trace EXCEPT ![p] =
                            @ \o <<patch, LogEvent("Adding new comment")>>]
                    /\ pc' = [pc EXCEPT ![p] = "NotFound"]
                    /\ UNCHANGED <<target, outcome, cause, hist>>
    /\ UNCHANGED <<nextId, actor, me, contents, marker, listed, resVars, artVars>>

\* issue_comments_path.post(body=contents)
CreateComment(p) ==
    /\ pc[p] = "NotFound"
    /\ \E st \in Responses :
        /\ st = "ok" => Len(thread) < MaxThread
        /\ trace' = [trace EXCEPT ![p] =
                Append(@, CallEvent("POST", 0, contents[p], st))]
        /\ thread' = IF st = "ok" THEN Posted(thread, nextId, actor, contents[p])
                     ELSE thread
        /\ nextId' = IF st = "ok" THEN nextId + 1 ELSE nextId
        /\ outcome' = [outcome EXCEPT ![p] = PostOutcome(st)]
        /\ cause' = [cause EXCEPT ![p] =
                IF PostOutcome(st) = "CannotPostComment" THEN "Forbidden" ELSE "none"]
        /\ pc' = [pc EXCEPT ![p] =
                IF PostOutcome(st) = "returned" THEN "Created" ELSE "Failed"]
        /\ hist' = HistAtEnd(PostOutcome(st), "POST", nextId)
    /\ UNCHANGED <<actor, me, contents, marker, listed, target, resVars, artVars>>

\* one workflow run: the invocations follow one another
Next ==
    \/ Start(Main)
    \/ ListComments(Main)
    \/ UpdateComment(Main)
    \/ CreateComment(Main)

Spec == Init /\ [][Next]_vars

\* every remote call is synchronous and is answered, with a result or a failure
Fairness ==
    /\ WF_vars(ListComments(Main))
    /\ WF_vars(UpdateComment(Main))
    /\ WF_vars(CreateComment(Main))

\* the invocations of a token whose comments the API records under "foo"
FairInit == Init /\ actor = "foo"

SpecFair == FairInit /\ [][Next]_vars /\ Fairness

(***************************************************************************)
(* get_pr_number_from_workflow_run                                         *)
(***************************************************************************)
Runs ==
    {[head_branch |-> b, head_repository |-> [full_name |-> r]] :
        r \in Repos, b \in Branches}

PRLists ==
    UNION {{[i \in 1..n |-> [number |-> f[i]]] : f \in [1..n -> PRNumbers]}
           : n \in 0..MaxPRs}

\* full_branch = f"{repo_name}:{branch}"
FullBranch(r) == r.head_repository.full_name \o <<":">> \o r.head_branch

\* get_prs = functools.partial(repo_path.pulls.get, head=full_branch, sort="updated",
\* direction="desc"), called with state=...
PullsQuery(r, state) ==
    [head |-> FullBranch(r), sort |-> "updated", direction |-> "desc", state |-> state]

NoQuery == [head |-> <<>>, sort |-> "", direction |-> "", state |-> ""]

ResEvent(kind, query, st, prs, login, msg) ==
    [kind |-> kind, query |-> query, status |-> st, prs |-> prs, login |-> login,
     msg |-> msg]

\* next(iter(pr.number for pr in ...)); 0 stands for StopIteration
LastNumber(prs) == IF prs = <<>> THEN 0 ELSE prs[Len(prs)].number
NextNumber(prs) == IF prs = <<>> THEN 0 ELSE prs[1].number

\* try: return next(...) except StopIteration: pass
OpenStepNoFallback(prs) ==
    IF NextNumber(prs) # 0 THEN "returned" ELSE "CannotDeterminePR"
OpenStep(prs) == IF NextNumber(prs) # 0 THEN "returned" ELSE "fallback"

\* try: return next(...) except StopIteration: raise CannotDeterminePR(...)
AllStep(prs) == IF NextNumber(prs) # 0 THEN "returned" ELSE "CannotDeterminePR"

\* f"No open PR found for branch {full_branch}, defaulting to all PRs"
FallbackNotice(r) ==
    <<"No open PR found for branch ">> \o FullBranch(r)
        \o <<", defaulting to all PRs">>

\* except StopIteration: pass, then log.info(f"No open PR found ...")
OpenMissSilent(asked, r) == <<asked>>
OpenMiss(asked, r) ==
    <<asked, ResEvent("LOG", NoQuery, "", <<>>, "", FallbackNotice(r))>>

ResReset ==
    /\ run' = <<>>
    /\ rtrace' = <<>>
    /\ routcome' = "none"
    /\ rnumber' = 0
    /\ rlogin' = ""

\* def get_pr_number_from_workflow_run(github, repository, run_id)
ResolveStart ==
    /\ rpc \in {"Idle", "Done"}
    /\ rop' = "pr"
    /\ rpc' = "GetRun"
    /\ ResReset
    /\ UNCHANGED <<postVars, artVars>>

\* run = repo_path.actions.runs(run_id).get()
GetRun ==
    /\ rop = "pr" /\ rpc = "GetRun"
    /\ \E st \in Responses :
        /\ rtrace' = Append(rtrace, ResEvent("GET_RUN", NoQuery, st, <<>>, "", <<>>))
        /\ IF st = "ok"
           THEN /\ run' \in Runs
                /\ rpc' = "QueryOpen"
                /\ UNCHANGED routcome
           ELSE /\ routcome' = Propagated(st)
                /\ rpc' = "Done"
                /\ UNCHANGED run
    /\ UNCHANGED <<rop, rnumber, rlogin, postVars, artVars>>

\* get_prs(state="open"), and on StopIteration the log.info that follows
QueryOpen ==
    /\ rop = "pr" /\ rpc = "QueryOpen"
    /\ \E st \in Responses, prs \in PRLists :
        LET asked == ResEvent("GET_PULLS", PullsQuery(run, "open"), st,
                              IF st = "ok" THEN prs ELSE <<>>, "", <<>>)
        IN  /\ st # "ok" => prs = <<>>
            /\ IF st # "ok"
               THEN /\ rtrace' = Append(rtrace, asked)
                    /\ routcome' = Propagated(st)
                    /\ rpc' = "Done"
                    /\ UNCHANGED rnumber
               ELSE IF OpenStep(prs) = "fallback"
               THEN /\ rtrace' = rtrace \o OpenMiss(asked, run)
                    /\ rpc' = "QueryAll"
                    /\ UNCHANGED <<routcome, rnumber>>
               ELSE /\ rtrace' = Append(rtrace, asked)
                    /\ routcome' = OpenStep(prs)
                    /\ rnumber' = NextNumber(prs)
                    /\ rpc' = "Done"
    /\ UNCHANGED <<rop, run, rlogin, postVars, artVars>>

\* get_prs(state="all")
QueryAll ==
    /\ rop = "pr" /\ rpc = "QueryAll"
    /\ \E st \in Responses, prs \in PRLists :
        /\ st # "ok" => prs = <<>>
        /\ rtrace' = Append(rtrace,
                ResEvent("GET_PULLS", PullsQuery(run, "all"), st, prs, "", <<>>))
        /\ routcome' = IF st = "ok" THEN AllStep(prs) ELSE Propagated(st)
        /\ rnumber' = IF st = "ok" THEN NextNumber(prs) ELSE 0
        /\ rpc' = "Done"
    /\ UNCHANGED <<rop, run, rlogin, postVars, artVars>>

(***************************************************************************)
(* get_my_login                                                            *)
(***************************************************************************)
\* except github_client.Forbidden: return GITHUB_ACTIONS_LOGIN / else: return response.login
LoginRaises(st, login) == IF st = "ok" THEN login ELSE ""
LoginOf(st, login) ==
    IF st = "forbidden" THEN GITHUB_ACTIONS_LOGIN
    ELSE IF st = "ok" THEN login
    ELSE ""

LoginOutcome(st) == IF st = "error" THEN Propagated(st) ELSE "returned"

\* def get_my_login(github)
LoginStart ==
    /\ rpc \in {"Idle", "Done"}
    /\ rop' = "login"
    /\ rpc' = "GetUser"
    /\ ResReset
    /\ UNCHANGED <<postVars, artVars>>

\* response = github.user.get()
GetUser ==
    /\ rop = "login" /\ rpc = "GetUser"
    /\ \E st \in Responses, login \in ApiLogins :
        /\ rtrace' = Append(rtrace,
                ResEvent("GET_USER", NoQuery, st, <<>>,
                         IF st = "ok" THEN login ELSE "", <<>>))
        /\ rlogin' = LoginOf(st, login)
        /\ routcome' = LoginOutcome(st)
        /\ rpc' = "Done"
    /\ UNCHANGED <<rop, run, rnumber, postVars, artVars>>

\* the two resolvers, called one at a time; no comment is posted meanwhile
ResolveInit ==
    /\ ResInit
    /\ ArtInit
    /\ PostInit
    /\ thread = <<>>
    /\ actor = "foo"

NextResolve ==
    \/ ResolveStart
    \/ GetRun
    \/ QueryOpen
    \/ QueryAll
    \/ LoginStart
    \/ GetUser

SpecResolve == ResolveInit /\ [][NextResolve]_vars

(***************************************************************************)
(* download_artifact                                                       *)
(***************************************************************************)
ArtifactNames == {"coverage", "Coverage", "other"}
FileNames == {"foo.txt", "Foo.txt"}
FirstArtifactId == 789

\* the bytes of an archive member: "hi", U+00E9 in two bytes, and a byte that
\* starts no UTF-8 sequence
ByteStrings == {<<104, 105>>, <<195, 169>>, <<255>>}

\* zipfile.ZipFile(zip_bytes): member name -> member bytes
Archives ==
    UNION {[names -> ByteStrings] : names \in SUBSET FileNames}

ArtifactLists ==
    UNION {{[i \in 1..n |-> [name |-> f[i], id |-> FirstArtifactId + i - 1]] :
                f \in [1..n -> ArtifactNames]}
           : n \in 0..MaxArtifacts}

\* artifact.name == artifact_name
Lower(name) == IF name = "Coverage" THEN "coverage" ELSE name
NameIsFolded(artifact, name) == Lower(artifact.name) = Lower(name)
NameIs(artifact, name) == artifact.name = name

\* next(iter(artifact for artifact in artifacts if ...)): the index of the
\* artifact taken, 0 for StopIteration
RECURSIVE PickFrom(_, _, _)
PickFrom(listing, i, name) ==
    IF i > Len(listing) THEN 0
    ELSE IF NameIs(listing[i], name) THEN i
    ELSE PickFrom(listing, i + 1, name)

RECURSIVE PickBack(_, _, _)
PickBack(listing, i, name) ==
    IF i < 1 THEN 0
    ELSE IF NameIs(listing[i], name) THEN i
    ELSE PickBack(listing, i - 1, name)

LastArtifact(listing, name) == PickBack(listing, Len(listing), name)
FirstArtifact(listing, name) == PickFrom(listing, 1, name)

\* bytes.decode("utf-8") for sequences of one and two bytes; -1 marks the place
\* where UnicodeDecodeError is raised
RECURSIVE Decode(_)
Decode(bs) ==
    IF bs = <<>> THEN <<>>
    ELSE IF bs[1] < 128 THEN <<bs[1]>> \o Decode(Tail(bs))
    ELSE IF /\ bs[1] >= 194 /\ bs[1] <= 223
            /\ Len(bs) >= 2 /\ bs[2] >= 128 /\ bs[2] <= 191
         THEN <<(bs[1] - 192) * 64 + (bs[2] - 128)>> \o Decode(Tail(Tail(bs)))
    ELSE <<-1>>

Decodes(bs) == \A i \in 1..Len(Decode(bs)) : Decode(bs)[i] # -1

\* try: return zipf.open(str(filename), "r").read().decode("utf-8")
\* except KeyError: raise NoArtifact(...)
ExtractUncaught(archive, filename) ==
    IF filename \notin DOMAIN archive THEN "KeyError"
    ELSE IF ~Decodes(archive[filename]) THEN "UnicodeDecodeError"
    ELSE "returned"
Extract(archive, filename) ==
    IF filename \notin DOMAIN archive THEN "NoArtifact"
    ELSE IF ~Decodes(archive[filename]) THEN "UnicodeDecodeError"
    ELSE "returned"

ArtEvent(kind, id, st, archive) ==
    [kind |-> kind, id |-> id, status |-> st, archive |-> archive]

\* def download_artifact(github, repository, artifact_name, run_id, filename)
ArtStart ==
    /\ apc \in {"Idle", "Done"}
    /\ aname' \in ArtifactNames
    /\ afile' \in FileNames
    /\ apc' = "List"
    /\ artifacts' = <<>>
    /\ atrace' = <<>>
    /\ aoutcome' = "none"
    /\ acontent' = <<>>
    /\ UNCHANGED <<postVars, resVars>>

\* artifacts = repo_path.actions.runs(run_id).artifacts.get().artifacts, and
\* the search for the artifact named artifact_name
ListArtifacts ==
    /\ apc = "List"
    /\ \E st \in Responses, listing \in ArtifactLists :
        /\ st # "ok" => listing = <<>>
        /\ atrace' = Append(atrace, ArtEvent("GET_ARTIFACTS", 0, st, <<>>))
        /\ artifacts' = listing
        /\ IF st # "ok"
           THEN /\ aoutcome' = Propagated(st)
                /\ apc' = "Done"
           ELSE IF FirstArtifact(listing, aname) = 0
           THEN /\ aoutcome' = "NoArtifact"
                /\ apc' = "Done"
           ELSE /\ aoutcome' = aoutcome
                /\ apc' = "Download"
    /\ UNCHANGED <<aname, afile, acontent, postVars, resVars>>

\* repo_path.actions.artifacts(artifact.id).zip.get(bytes=True), and the read
\* of the member named filename
DownloadZip ==
    /\ apc = "Download"
    /\ \E st \in Responses, archive \in Archives :
        /\ st # "ok" => archive = <<>>
        /\ atrace' = Append(atrace,
                ArtEvent("GET_ZIP", artifacts[FirstArtifact(artifacts, aname)].id, st,
                         archive))
        /\ aoutcome' = IF st = "ok" THEN Extract(archive, afile) ELSE Propagated(st)
        /\ acontent' = IF st = "ok" /\ Extract(archive, afile) = "returned"
                       THEN Decode(archive[afile]) ELSE <<>>
        /\ apc' = "Done"
    /\ UNCHANGED <<aname, afile, artifacts, postVars, resVars>>

ArtifactInit ==
    /\ ResolveInit

NextArtifact ==
    \/ ArtStart
    \/ ListArtifacts
    \/ DownloadZip

SpecArtifact == ArtifactInit /\ [][NextArtifact]_vars

(***************************************************************************)
(* get_my_login and post_comment under one caller, on a thread that starts *)
(* empty.                                                                  *)
(***************************************************************************)
CallerInit ==
    /\ Init
    /\ thread = <<>>
    /\ actor = "foo"

NextCaller ==
    \/ LoginStart
    \/ GetUser
    \/ Start(Main)
    \/ ListComments(Main)
    \/ UpdateComment(Main)
    \/ CreateComment(Main)

SpecCaller == CallerInit /\ [][NextCaller]_vars

(***************************************************************************)
(* Two workflow runs that post on the same PR: each invokes post_comment   *)
(* once, and their remote calls interleave.                                *)
(***************************************************************************)
ConcInit ==
    /\ Init
    /\ Len(thread) <= 1

NextConc ==
    \E p \in Procs :
        \/ pc[p] = "Idle" /\ Start(p)
        \/ ListComments(p)
        \/ UpdateComment(p)
        \/ CreateComment(p)

SpecConc == ConcInit /\ [][NextConc]_vars

(***************************************************************************)
(* The properties.  They read the calls an invocation made from its trace, *)
(* and spell ownership and the head filter out on their own.               *)
(***************************************************************************)
HasMarker(body, k) ==
    \E i \in 1..(Len(body) + 1), j \in 0..Len(body) : SubSeq(body, i, j) = k

Owned(c, p) == c.user.login = me[p] /\ HasMarker(c.body, marker[p])

OwnedIn(comments, p) == {i \in 1..Len(comments) : Owned(comments[i], p)}

FirstOwned(comments, p) ==
    CHOOSE i \in OwnedIn(comments, p) : \A j \in OwnedIn(comments, p) : i <= j

Calls(p, kind) == {i \in 1..Len(trace[p]) : trace[p][i].kind = kind}

ListedOk(p) ==
    /\ trace[p] # <<>>
    /\ trace[p][1].kind = "GET"
    /\ trace[p][1].status = "ok"

\* C1: once an invocation whose comment list holds a comment by `me` with the
\* marker has ended, it has issued a PATCH, every PATCH it issued carries
\* body = contents and the id of the first such comment of the list, and it has
\* issued no POST.
C1_UpdatesFirstMatch ==
    \A p \in Procs :
        (pc[p] \in Terminal /\ ListedOk(p) /\ OwnedIn(listed[p], p) # {}) =>
            /\ Calls(p, "POST") = {}
            /\ Calls(p, "PATCH") # {}
            /\ \A i \in Calls(p, "PATCH") :
                /\ trace[p][i].id = listed[p][FirstOwned(listed[p], p)].id
                /\ trace[p][i].body = contents[p]

C1_Witness ==
    /\ pc[Main] = "Updated"
    /\ Cardinality(OwnedIn(listed[Main], Main)) = 2
    /\ Calls(Main, "PATCH") # {}

\* C2: once an invocation whose comment list holds no comment by `me` with the
\* marker has ended, it has issued exactly one POST, with body = contents, and
\* no PATCH.
C2_CreatesWhenNoMatch ==
    \A p \in Procs :
        (pc[p] \in Terminal /\ ListedOk(p) /\ OwnedIn(listed[p], p) = {}) =>
            /\ Calls(p, "PATCH") = {}
            /\ Cardinality(Calls(p, "POST")) = 1
            /\ \A i \in Calls(p, "POST") : trace[p][i].body = contents[p]

C2_Witness ==
    /\ pc[Main] = "Created"
    /\ Len(listed[Main]) = 2
    /\ \E i \in 1..2 :
        /\ listed[Main][i].user.login # me[Main]
        /\ HasMarker(listed[Main][i].body, marker[Main])
    /\ \E i \in 1..2 :
        /\ listed[Main][i].user.login = me[Main]
        /\ ~HasMarker(listed[Main][i].body, marker[Main])
    /\ Calls(Main, "POST") # {}

\* C3: no PATCH an invocation has issued is against a comment whose author is
\* not the invocation's `me`.
C3_NeverUpdatesOthers ==
    \A p \in Procs : \A i \in Calls(p, "PATCH") : \A j \in 1..Len(thread) :
        thread[j].id = trace[p][i].id => thread[j].user.login = me[p]

C3_Witness ==
    /\ pc[Main] = "Updated"
    /\ Calls(Main, "PATCH") # {}
    /\ listed[Main][1].user.login # me[Main]
    /\ HasMarker(listed[Main][1].body, marker[Main])

\* C4: an invocation whose PATCH or POST was answered forbidden has failed with
\* CannotPostComment, whose cause is the forbidden condition.
C4_ForbiddenWriteSurfaces ==
    \A p \in Procs :
        (\E i \in Calls(p, "PATCH") \cup Calls(p, "POST") :
            trace[p][i].status = "forbidden") =>
            /\ pc[p] = "Failed"
            /\ outcome[p] = "CannotPostComment"
            /\ cause[p] = "Forbidden"

C4_Witness ==
    /\ \E i \in Calls(Main, "PATCH") : trace[Main][i].status = "forbidden"
    /\ outcome[Main] = "CannotPostComment"

\* C5 as stated: after n >= 1 invocations with the same (me, marker) that
\* returned, one after the other, exactly one comment of the thread is by `me`
\* and holds the marker.
C5_ExactlyOneMatch ==
    (hist.n >= 1 /\ pc[Main] \in {"Updated", "Created"}) =>
        Cardinality(OwnedIn(thread, Main)) = 1

\* C5 as amended: the same, provided every contents held the marker and, before
\* the first of these invocations, the thread held one such comment, or none
\* and the API records created comments under `me`.
C5_ExactlyOneMatchFromAtMostOne ==
    (/\ hist.n >= 1
     /\ pc[Main] \in {"Updated", "Created"}
     /\ hist.marked
     /\ hist.pre = 1 \/ (hist.pre = 0 /\ actor = me[Main])) =>
        Cardinality(OwnedIn(thread, Main)) = 1

C5_Witness ==
    /\ hist.n >= 2
    /\ hist.pre = 0
    /\ hist.marked
    /\ actor = me[Main]
    /\ pc[Main] = "Updated"
    /\ Cardinality(OwnedIn(thread, Main)) = 1

\* C6: a PATCH that succeeds changes the body of the first comment of the list
\* by `me` with the marker, and nothing else: the thread keeps its length and
\* every other comment, later matches included, is as it was.
C6_UpdateFrame ==
    [][\A p \in Procs :
        (pc[p] = "Found" /\ pc'[p] = "Updated") =>
            LET f == FirstOwned(listed[p], p)
            IN  /\ Len(thread') = Len(thread)
                /\ \A i \in 1..Len(thread) : i # f => thread'[i] = thread[i]
                /\ thread'[f] = [thread[f] EXCEPT !.body = contents[p]]]_vars

C6_Witness ==
    /\ pc[Main] = "Updated"
    /\ Cardinality(OwnedIn(listed[Main], Main)) = 2
    /\ Len(thread) = 2
    /\ thread[1].body = contents[Main]
    /\ thread[2] = listed[Main][2]
    /\ thread[2].body # contents[Main]

HeadOf(r) ==
    <<r.head_repository.full_name[1], r.head_repository.full_name[2],
      r.head_repository.full_name[3], ":", r.head_branch[1]>>

Pulls(state) ==
    {i \in 1..Len(rtrace) :
        rtrace[i].kind = "GET_PULLS" /\ rtrace[i].query.state = state}

Answered(i, n) ==
    rtrace[i].status = "ok" /\ Len(rtrace[i].prs) = n

\* C7: when the state=open query (head = repo:branch, sort=updated,
\* direction=desc) returned a result, the function has returned the number of
\* its first result and has issued no state=all query.
C7_OpenResultWins ==
    \A i \in Pulls("open") :
        /\ rtrace[i].query.head = HeadOf(run)
        /\ rtrace[i].query.sort = "updated"
        /\ rtrace[i].query.direction = "desc"
        /\ (rtrace[i].status = "ok" /\ rtrace[i].prs # <<>>) =>
            /\ routcome = "returned"
            /\ rnumber = rtrace[i].prs[1].number
            /\ Pulls("all") = {}

C7_Witness ==
    /\ routcome = "returned"
    /\ \E i \in Pulls("open") :
        /\ Len(rtrace[i].prs) = 2
        /\ rtrace[i].prs[1] # rtrace[i].prs[2]

\* C8: when the state=open query returned nothing and the state=all query
\* returned a result, the function has returned the number of the first
\* state=all result, and the fallback notice was logged between the two queries.
C8_FallbackToAll ==
    \A i \in Pulls("open"), j \in Pulls("all") :
        (Answered(i, 0) /\ rtrace[j].status = "ok" /\ rtrace[j].prs # <<>>) =>
            /\ routcome = "returned"
            /\ rnumber = rtrace[j].prs[1].number
            /\ rtrace[j].query.head = HeadOf(run)
            /\ \E l \in (i + 1)..(j - 1) :
                /\ rtrace[l].kind = "LOG"
                /\ rtrace[l].msg = <<"No open PR found for branch ">> \o HeadOf(run)
                                        \o <<", defaulting to all PRs">>

C8_Witness ==
    /\ routcome = "returned"
    /\ \E i \in Pulls("open"), j \in Pulls("all") :
        /\ Answered(i, 0)
        /\ Answered(j, 2)
        /\ rtrace[j].prs[1] # rtrace[j].prs[2]

\* C9: the function has failed with CannotDeterminePR exactly when both the
\* state=open and the state=all query returned nothing, and it has then
\* returned no PR number.
C9_CannotDetermineIffBothEmpty ==
    /\ (routcome = "CannotDeterminePR") <=>
            ((\E i \in Pulls("open") : Answered(i, 0))
             /\ (\E j \in Pulls("all") : Answered(j, 0)))
    /\ (routcome = "CannotDeterminePR") => rnumber = 0

C9_Witness ==
    /\ routcome = "CannotDeterminePR"
    /\ \E i \in Pulls("open") : Answered(i, 0)
    /\ \E j \in Pulls("all") : Answered(j, 0)

Users == {i \in 1..Len(rtrace) : rtrace[i].kind = "GET_USER"}

\* C10: when the lookup of the own user was answered forbidden the function has
\* returned "github-actions[bot]" and raised nothing; when it succeeded the
\* function has returned the login of the answer.
C10_LoginFallback ==
    \A i \in Users :
        /\ rtrace[i].status = "forbidden" =>
            (routcome = "returned" /\ rlogin = "github-actions[bot]")
        /\ rtrace[i].status = "ok" =>
            (routcome = "returned" /\ rlogin = rtrace[i].login)

C10_Witness ==
    /\ \E i \in Users : rtrace[i].status = "forbidden"
    /\ rlogin = "github-actions[bot]"
    /\ routcome = "returned"

ArtifactsListed ==
    /\ atrace # <<>>
    /\ atrace[1].kind = "GET_ARTIFACTS"
    /\ atrace[1].status = "ok"

Named == {i \in 1..Len(artifacts) : artifacts[i].name = aname}

Zips == {i \in 1..Len(atrace) : atrace[i].kind = "GET_ZIP"}

\* the archive members that are UTF-8, and the text each stands for
TextOf(bs) ==
    CASE bs = <<104, 105>> -> <<104, 105>>
      [] bs = <<195, 169>> -> <<233>>
      [] OTHER -> <<>>

IsText(bs) == bs \in {<<104, 105>>, <<195, 169>>}

\* C11: once a listing with no artifact named artifact_name has been received,
\* the function has failed with NoArtifact and has requested no artifact content.
C11_NoArtifactWithoutDownload ==
    (ArtifactsListed /\ Named = {}) =>
        /\ aoutcome = "NoArtifact"
        /\ apc = "Done"
        /\ Zips = {}

C11_Witness ==
    /\ ArtifactsListed
    /\ aoutcome = "NoArtifact"
    /\ aname = "coverage"
    /\ Len(artifacts) = 2
    /\ artifacts[1].name = "Coverage"

\* C12 as stated: once the archive of the artifact has been received, the
\* function has failed with NoArtifact when the archive has no member named
\* filename, and has otherwise returned the content of that member.
C12_MemberOrNoArtifact ==
    \A i \in Zips :
        atrace[i].status = "ok" =>
            IF afile \in DOMAIN atrace[i].archive
            THEN /\ aoutcome = "returned"
                 /\ acontent = TextOf(atrace[i].archive[afile])
            ELSE aoutcome = "NoArtifact"

\* C12 as amended: the same, where the member's bytes are UTF-8.
C12_TextMemberOrNoArtifact ==
    \A i \in Zips :
        atrace[i].status = "ok" =>
            IF afile \notin DOMAIN atrace[i].archive
            THEN aoutcome = "NoArtifact" /\ acontent = <<>>
            ELSE IsText(atrace[i].archive[afile]) =>
                    /\ aoutcome = "returned"
                    /\ acontent = TextOf(atrace[i].archive[afile])

C12_Witness ==
    /\ aoutcome = "NoArtifact"
    /\ afile = "foo.txt"
    /\ \E i \in Zips :
        /\ atrace[i].status = "ok"
        /\ DOMAIN atrace[i].archive = {"Foo.txt"}

\* C17: the artifact whose content is requested is the first of the listing
\* named artifact_name, and no second content request is made.
C17_FirstNamedArtifact ==
    /\ Cardinality(Zips) <= 1
    /\ \A i \in Zips :
        /\ Named # {}
        /\ atrace[i].id =
            artifacts[CHOOSE n \in Named : \A o \in Named : n <= o].id

C17_Witness ==
    /\ Zips # {}
    /\ Named = {2, 3}

Writes(p) == Calls(p, "PATCH") \cup Calls(p, "POST")

IsLog(e, msg) == e.kind = "LOG" /\ e.msg = msg

Moves ==
    {<<"Idle", "Scanning">>, <<"Updated", "Scanning">>, <<"Created", "Scanning">>,
     <<"Failed", "Scanning">>,
     <<"Scanning", "Found">>, <<"Scanning", "NotFound">>, <<"Scanning", "Failed">>,
     <<"Found", "Updated">>, <<"Found", "Failed">>,
     <<"NotFound", "Created">>, <<"NotFound", "Failed">>}

\* C14: an invocation starts in Scanning; with the list received it moves to
\* Found when the list holds a comment by `me` with the marker and to NotFound
\* when it holds none (it fails from Scanning only when the list is not
\* received); Found leads only to Updated or Failed, NotFound only to Created or
\* Failed; and an invocation in Scanning reaches Updated, Created or Failed.
C14_StateMachine ==
    /\ [][\A p \in Procs :
            /\ pc'[p] # pc[p] => <<pc[p], pc'[p]>> \in Moves
            /\ (pc[p] = "Scanning" /\ pc'[p] = "Found") =>
                    (ListedOk(p)' /\ OwnedIn(listed'[p], p) # {})
            /\ (pc[p] = "Scanning" /\ pc'[p] = "NotFound") =>
                    (ListedOk(p)' /\ OwnedIn(listed'[p], p) = {})
            /\ (pc[p] = "Scanning" /\ pc'[p] = "Failed") => ~ListedOk(p)'
            /\ (pc[p] = "Found" /\ pc'[p] = "Found") =>
                    (trace'[p] = trace[p] /\ target'[p] = target[p])
       ]_vars
    /\ (pc[Main] = "Scanning") ~> (pc[Main] \in Terminal)

C14_Witness ==
    /\ pc[Main] = "Failed"
    /\ Calls(Main, "POST") # {}
    /\ Len(listed[Main]) = 2

\* C15 as stated: in an invocation that has ended, the update log line follows a PATCH that succeeded, and the
\* create log line follows a POST that succeeded.
C15_LogAfterSuccess ==
    \A p \in Procs : \A i \in 1..Len(trace[p]) :
        /\ pc[p] \in Terminal
        => /\ IsLog(trace[p][i], "Update previous comment") =>
                \E j \in 1..(i - 1) :
                    trace[p][j].kind = "PATCH" /\ trace[p][j].status = "ok"
           /\ IsLog(trace[p][i], "Adding new comment") =>
                \E j \in 1..(i - 1) :
                    trace[p][j].kind = "POST" /\ trace[p][j].status = "ok"

\* C15 as amended: the update log line is emitted when the matching comment is
\* found, right before the PATCH and whatever its answer; the create log line
\* is emitted right before the POST and whatever its answer; no log line
\* follows a write.
C15_LogBeforeWrite ==
    \A p \in Procs :
        /\ \A j \in Calls(p, "PATCH") :
            j > 1 /\ IsLog(trace[p][j - 1], "Update previous comment")
        /\ \A j \in Calls(p, "POST") :
            j > 1 /\ IsLog(trace[p][j - 1], "Adding new comment")
        /\ \A i \in Calls(p, "LOG") : \A j \in Writes(p) : i < j
        /\ pc[p] = "Found" => IsLog(trace[p][Len(trace[p])], "Update previous comment")
        /\ pc[p] = "NotFound" => IsLog(trace[p][Len(trace[p])], "Adding new comment")

C15_Witness ==
    /\ pc[Main] = "Failed"
    /\ \E j \in Calls(Main, "PATCH") :
        /\ trace[Main][j].status = "forbidden"
        /\ IsLog(trace[Main][j - 1], "Update previous comment")

\* C18: an invocation issues no write before its list has been received, never
\* more than one write, and exactly one write once it has ended with its list
\* received.
C18_OneWrite ==
    \A p \in Procs :
        /\ Writes(p) # {} => ListedOk(p)
        /\ Cardinality(Writes(p)) <= 1
        /\ (pc[p] \in Terminal /\ ListedOk(p)) => Cardinality(Writes(p)) = 1

C18_Witness ==
    /\ pc[Main] \in Terminal
    /\ outcome[Main] = "returned"
    /\ Cardinality(OwnedIn(listed[Main], Main)) = 2
    /\ Cardinality(Calls(Main, "PATCH")) = 1
    /\ Calls(Main, "POST") = {}

\* C19: an invocation whose PATCH was answered forbidden has failed with
\* CannotPostComment after that one PATCH, without a POST, and the thread is
\* as it was listed.
C19_ForbiddenUpdateNoFallback ==
    \A p \in Procs :
        (\E i \in Calls(p, "PATCH") : trace[p][i].status = "forbidden") =>
            /\ outcome[p] = "CannotPostComment"
            /\ Calls(p, "POST") = {}
            /\ Cardinality(Calls(p, "PATCH")) = 1
            /\ thread = listed[p]

C19_Witness ==
    /\ \E i \in Calls(Main, "PATCH") : trace[Main][i].status = "forbidden"
    /\ Cardinality(OwnedIn(listed[Main], Main)) = 2
    /\ Cardinality(OwnedIn(thread, Main)) = 2
    /\ pc[Main] = "Failed"

\* C20: starting from a thread with no comment by `me` with the marker, in a run
\* of invocations with the same (me, marker) that returned one after the other:
\* when every contents holds the marker and the API records created comments
\* under `me`, the first issued a POST and each later one only a PATCH against
\* the id of the comment that POST created; when no contents holds the marker,
\* or the API records created comments under another login, the second and
\* every later one issued a POST again.
C20_ConvergenceDependsOnInputs ==
    (hist.n >= 1 /\ hist.pre = 0 /\ pc[Main] \in {"Updated", "Created"}) =>
        /\ (hist.marked /\ actor = me[Main]) =>
            /\ hist.posts = 1
            /\ hist.made # 0
            /\ hist.n = 1 =>
                (pc[Main] = "Created" /\ Calls(Main, "PATCH") = {})
            /\ hist.n >= 2 =>
                /\ pc[Main] = "Updated"
                /\ Calls(Main, "POST") = {}
                /\ \A i \in Calls(Main, "PATCH") : trace[Main][i].id = hist.made
        /\ (hist.unmarked \/ actor # me[Main]) =>
            /\ pc[Main] = "Created"
            /\ Calls(Main, "POST") # {}
            /\ Calls(Main, "PATCH") = {}
            /\ hist.posts = hist.n

C20_Witness ==
    /\ hist.n >= 2
    /\ hist.pre = 0
    /\ hist.unmarked
    /\ actor = me[Main]
    /\ pc[Main] = "Created"
    /\ hist.posts = 2

\* C16: a remote call that fails otherwise than forbidden ends the function with
\* that failure: get_my_login returns no login then, and post_comment does not
\* raise CannotPostComment for such a failure of its list call, PATCH or POST.
C16_OtherFailuresPropagate ==
    /\ \A i \in Users :
        rtrace[i].status = "error" => (routcome = "ApiError" /\ rlogin = "")
    /\ \A p \in Procs : \A i \in 1..Len(trace[p]) :
        (trace[p][i].kind \in {"GET", "PATCH", "POST"}
            /\ trace[p][i].status = "error") =>
            /\ pc[p] = "Failed"
            /\ outcome[p] = "ApiError"
            /\ cause[p] = "none"

C16_Witness ==
    /\ \E i \in Users : rtrace[i].status = "error"
    /\ routcome = "ApiError"
    /\ \E i \in Calls(Main, "POST") : trace[Main][i].status = "error"
    /\ outcome[Main] = "ApiError"

Marked(p) == IF actor = me[p] /\ HasMarker(contents[p], marker[p]) THEN 1 ELSE 0

\* C13: when two invocations with the same (me, marker) have both received the
\* same list, holding no comment by `me` with the marker, and both have ended,
\* each has issued one POST and no PATCH; when both POSTs succeeded the thread
\* has grown by two comments, and both are by `me` with the marker when both
\* contents hold the marker and the API records created comments under `me`.
C13_BothCreate ==
    \A p \in Procs, q \in Procs :
        (/\ p # q
         /\ ListedOk(p) /\ ListedOk(q)
         /\ listed[p] = listed[q]
         /\ me[p] = me[q] /\ marker[p] = marker[q]
         /\ OwnedIn(listed[p], p) = {}
         /\ pc[p] \in Terminal /\ pc[q] \in Terminal) =>
            /\ Cardinality(Calls(p, "POST")) = 1 /\ Calls(p, "PATCH") = {}
            /\ Cardinality(Calls(q, "POST")) = 1 /\ Calls(q, "PATCH") = {}
            /\ (pc[p] = "Created" /\ pc[q] = "Created") =>
                /\ Len(thread) = Len(listed[p]) + 2
                /\ Cardinality(OwnedIn(thread, p)) = Marked(p) + Marked(q)

C13_Witness ==
    /\ pc[1] = "Created" /\ pc[2] = "Created"
    /\ ListedOk(1) /\ ListedOk(2)
    /\ listed[1] = listed[2]
    /\ me[1] = me[2] /\ marker[1] = marker[2]
    /\ OwnedIn(listed[1], 1) = {}
    /\ Cardinality(OwnedIn(thread, 1)) = 2

====
